---- MODULE Spec2Model ----
(***************************************************************************)
(* State-machine model of streamlit_dashboard.py: the APIClient transport  *)
(* functions, the 60 second tools cache (get_cached_tools), and the        *)
(* Streamlit script main()/simple_interface()/quick_query() acting on      *)
(* st.session_state.  One execution of the script is one action; the       *)
(* blocking query call splits a dispatching execution in two (the request  *)
(* is in flight between them).                                             *)
(***************************************************************************)
EXTENDS Integers, Sequences, FiniteSets, TLC

-----------------------------------------------------------------------------
(* Bounds of the model *)

\* the clock stops advancing here
MaxTime == 120
\* no dispatch starts unless its two turns fit in the log
MaxTurns == 2
\* the same, for the specification with the longer log
MaxLogTurns == 4

-----------------------------------------------------------------------------
(* Python values *)

\* None where a dict (or a JSON document) is expected
None == [py |-> "None"]
\* None where a time.time() float is expected (cached_tools_time)
NoTime == -1

\* A text is a sequence of chunks; " " is a whitespace chunk, every other
\* chunk is non-blank.  "" is <<>>, concatenation is \o.
IsSpace(c) == c = " "

RECURSIVE lstrip(_)
lstrip(s) == IF s # <<>> /\ IsSpace(Head(s)) THEN lstrip(Tail(s)) ELSE s

RECURSIVE rstrip(_)
rstrip(s) ==
    IF s # <<>> /\ IsSpace(s[Len(s)]) THEN rstrip(SubSeq(s, 1, Len(s) - 1)) ELSE s

\* str.strip()
strip(s) == rstrip(lstrip(s))

\* JSON documents as response.json() returns them: a non-empty dict, an empty
\* dict, a non-empty list, null (None); "invalid" is a body json() raises on.
JsonObject(o) == [type |-> "object", obj |-> o]
EmptyObject == [type |-> "empty_object"]
JsonArray == [type |-> "array"]
InvalidJson == [type |-> "invalid"]

\* isinstance(v, dict): the values .get() can be called on
IsDict(v) == v # None /\ v.type \in {"object", "empty_object"}

\* bool(v) of a value a JSON endpoint handed back
Truthy(v) == v # None /\ v.type \in {"object", "array"}

\* d.get(k, default) / k in d, for a dict d
Has(d, k) == d.type = "object" /\ k \in DOMAIN d.obj
Get(d, k, default) == IF Has(d, k) THEN d.obj[k] ELSE default

-----------------------------------------------------------------------------
(* What the remote service can answer to one request *)

\* no request was made
NotCalled == [kind |-> "none"]

Exception(msg) == [kind |-> "exception", msg |-> msg]
Response(code, body) == [kind |-> "response", status_code |-> code, body |-> body]

ProbeOutcomes ==
    { Exception(<<"connection refused">>),
      Response(200, None), Response(503, None) }

StatusBodies ==
    { JsonObject([tools_count |-> 7, azure_openai_connected |-> TRUE,
                  mcp_server_connected |-> FALSE]),
      JsonObject([mcp_server_connected |-> TRUE]),
      EmptyObject, JsonArray, InvalidJson }

StatusOutcomes ==
    { Exception(<<"timeout">>), Response(500, None) }
        \cup { Response(200, b) : b \in StatusBodies }

QueryBodies ==
    { JsonObject([success |-> TRUE, response |-> <<"answer">>,
                  total_rounds |-> 3, total_execution_time |-> 2]),
      JsonObject([success |-> TRUE, response |-> <<>>]),
      JsonObject([success |-> FALSE, response |-> <<"sorry">>,
                  error |-> <<"agent failed">>,
                  total_rounds |-> 1, total_execution_time |-> 1]),
      JsonObject([response |-> <<"answer">>]),
      JsonArray }

QueryOutcomes ==
    { Exception(<<"timeout">>), Response(500, None) }
        \cup { Response(200, b) : b \in QueryBodies }

-----------------------------------------------------------------------------
(* APIClient *)

\* a call either returns a value or lets an exception escape
Return(v) == [raised |-> FALSE, value |-> v]
Raise(msg) == [raised |-> TRUE, error |-> msg]

\* response.json(): raises on a body that is not JSON
json(r) == IF r.body = InvalidJson THEN Raise(<<"Expecting value">>) ELSE Return(r.body)

\* mutant: any 2xx status counts as connected
check_api_connection_ok(out) ==
    IF out.kind = "exception" THEN FALSE ELSE out.status_code \in 200 .. 299

check_api_connection(out) ==
    IF out.kind = "exception" THEN FALSE ELSE out.status_code = 200

get_status(out) ==
    IF out.kind = "exception" THEN None
    ELSE IF out.status_code = 200
         THEN IF json(out).raised THEN None ELSE json(out).value
         ELSE None

\* mutant: the failure dict carries no round count and no execution time
QueryFailureBare(response, error) ==
    JsonObject([success |-> FALSE, response |-> response, error |-> error])

\* the dict both failure branches of process_query build
QueryFailure(response, error) ==
    JsonObject([success |-> FALSE, response |-> response, error |-> error,
                total_rounds |-> 0, total_execution_time |-> 0,
                iteration_details |-> <<>>])

\* mutant: no try/except around the request
process_query_unguarded(query, out) ==
    IF out.kind = "exception" THEN Raise(out.msg)
    ELSE IF out.status_code = 200
         THEN json(out)
         ELSE Return(QueryFailure(
                  <<"API request failed with status ", ToString(out.status_code)>>,
                  <<"HTTP ", ToString(out.status_code)>>))

process_query(query, out) ==
    IF out.kind = "exception"
    THEN Return(QueryFailure(<<"Request error: ">> \o out.msg, out.msg))
    ELSE IF out.status_code = 200
         THEN IF json(out).raised
              THEN Return(QueryFailure(<<"Request error: ">> \o json(out).error,
                                       json(out).error))
              ELSE Return(json(out).value)
         ELSE Return(QueryFailure(
                  <<"API request failed with status ", ToString(out.status_code)>>,
                  <<"HTTP ", ToString(out.status_code)>>))

-----------------------------------------------------------------------------
(* The tools cache: get_cached_tools *)

cache_duration == 60

SuccessTools(api_status) ==
    [count |-> Get(api_status, "tools_count", 0),
     azure_connected |-> Get(api_status, "azure_openai_connected", FALSE),
     mcp_connected |-> Get(api_status, "mcp_server_connected", FALSE),
     status |-> "success"]

FailedTools ==
    [count |-> 0, azure_connected |-> FALSE, mcp_connected |-> FALSE,
     status |-> "failed"]

ErrorTools(e) ==
    [count |-> 0, azure_connected |-> FALSE, mcp_connected |-> FALSE,
     status |-> "error", error |-> e]

\* mutant: the age test is >= instead of >
NeedsRefreshAtTTL(force_refresh, tools, time, current_time) ==
    \/ force_refresh
    \/ tools = None
    \/ time = NoTime
    \/ (current_time - time) >= cache_duration

\* mutant: force_refresh is not looked at
NeedsRefreshUnforced(force_refresh, tools, time, current_time) ==
    \/ tools = None
    \/ time = NoTime
    \/ (current_time - time) > cache_duration

\* mutant: a cache without a time stamp is not looked for
NeedsRefreshUnstamped(force_refresh, tools, time, current_time) ==
    \/ force_refresh
    \/ tools = None
    \/ (current_time - time) > cache_duration

\* the condition of the if at lines 107-110, evaluated left to right
NeedsRefresh(force_refresh, tools, time, current_time) ==
    \/ force_refresh
    \/ tools = None
    \/ time = NoTime
    \/ (current_time - time) > cache_duration

\* mutant: api_status is used without the test for a null result
RefreshTryUnchecked(api_status, current_time) ==
    IF IsDict(api_status)
    THEN Return([cached_tools |-> SuccessTools(api_status),
                 cached_tools_time |-> current_time])
    ELSE Raise(<<"object has no attribute 'get'">>)

\* the body of the try: the new (cached_tools, cached_tools_time), or the
\* exception api_status.get raises when the status document is not a dict
RefreshTry(api_status, current_time) ==
    IF Truthy(api_status)
    THEN IF IsDict(api_status)
         THEN Return([cached_tools |-> SuccessTools(api_status),
                      cached_tools_time |-> current_time])
         ELSE Raise(<<"object has no attribute 'get'">>)
    ELSE Return([cached_tools |-> FailedTools, cached_tools_time |-> current_time])

\* mutant: the handler stores the error value whatever the cache holds
RefreshExceptOverwrite(tools, time, e) ==
    Return([cached_tools |-> ErrorTools(e), cached_tools_time |-> time])

\* the except handler: only an empty cache is filled, the time is left alone
RefreshExcept(tools, time, e) ==
    Return([cached_tools |-> IF tools = None THEN ErrorTools(e) ELSE tools,
            cached_tools_time |-> time])

\* One call.  fetches counts the get_status calls it made, value is what it
\* returned (or raised is TRUE), cached_tools/cached_tools_time the session
\* state it left, api_status what get_status handed back.
get_cached_tools(force_refresh, tools, time, current_time, out) ==
    IF NeedsRefresh(force_refresh, tools, time, current_time)
    THEN LET api_status == get_status(out)
             body == RefreshTry(api_status, current_time)
             done == IF body.raised THEN RefreshExcept(tools, time, body.error)
                     ELSE body
         IN  IF done.raised
             THEN [raised |-> TRUE, fetches |-> 1, api_status |-> api_status,
                   value |-> None,
                   cached_tools |-> tools, cached_tools_time |-> time]
             ELSE [raised |-> FALSE, fetches |-> 1, api_status |-> api_status,
                   value |-> done.value.cached_tools,
                   cached_tools |-> done.value.cached_tools,
                   cached_tools_time |-> done.value.cached_tools_time]
    ELSE [raised |-> FALSE, fetches |-> 0, api_status |-> None,
          value |-> tools, cached_tools |-> tools, cached_tools_time |-> time]

-----------------------------------------------------------------------------
(* The session *)

VARIABLES
    api_connected,      \* st.session_state.api_connected
    chat_history,       \* st.session_state.chat_history
    api_checking,       \* st.session_state.api_checking
    cached_tools,       \* st.session_state.cached_tools
    cached_tools_time,  \* st.session_state.cached_tools_time
    now,                \* the clock time.time() and datetime.now() read
    pc,                 \* "run": an execution of the script is due, no widget
                        \* pressed; "idle": the page is rendered and waits for
                        \* the user; "query": blocked in process_query
    pending,            \* the query in flight: entry point, text, start_time
    chat_status,        \* what the sidebar's Chat Status section last showed
    rendered_sent,      \* sent, when the sidebar was last rendered
    sent,               \* user turns appended since the last clear
    lastAction,         \* the widget whose press is being served, "none" once
                        \* the re-execution it asked for is over
    lastGet,            \* the get_cached_tools call of the last step, if any
    result,             \* the process_query call of the last step, if any
    search_results,     \* what search_calls_transcript_database last returned
    applied,            \* a function of the module applied on its own: its
                        \* arguments, the answer of the remote, what it returned
    probed,             \* the check_api_connection calls of the last step, in
                        \* order: what asked for each and what it returned
    served              \* the transport calls made so far for the widget press
                        \* being served; none once its re-execution is over

vars ==
    <<api_connected, chat_history, api_checking, cached_tools, cached_tools_time,
      now, pc, pending, chat_status, rendered_sent, sent, lastAction, lastGet,
      result, search_results, applied, probed, served>>

\* the session, without the record of a function applied on its own
session ==
    <<api_connected, chat_history, api_checking, cached_tools, cached_tools_time,
      now, pc, pending, chat_status, rendered_sent, sent, lastAction, lastGet,
      result, search_results, probed, served>>

\* no transport call
NoCalls == [probes |-> 0, fetches |-> 0, fetch_at |-> NoTime, queries |-> 0]

\* the transport calls of one execution of the script: its probes, the
\* get_status call of its get_cached_tools call and the time current_time
\* held then, its process_query calls
Calls(probes, get, queries) ==
    [probes |-> Len(probes),
     fetches |-> IF get = None THEN 0 ELSE get.fetches,
     fetch_at |-> IF get # None /\ get.fetches = 1 THEN get.at ELSE NoTime,
     queries |-> queries]

\* mutant: widgets are served while a query is in flight
InteractiveAlways(at) == TRUE

\* A widget press is served when the script is not running: the handlers call
\* the transport synchronously, so an execution is over before the next starts.
Interactive(at) == at = "idle"

\* the canned strings of the four Quick Actions buttons, by widget key
QuickQueries ==
    [quick_database |-> <<"Give me an overview of the transcript database - how many transcripts are there and what can I analyze?">>,
     quick_issues |-> <<"What are the most common customer issues in the call transcripts? Provide examples with transcript IDs.">>,
     quick_trends |-> <<"Analyze call patterns and trends in the transcript data. Show me specific examples.">>,
     quick_help |-> <<"What can you help me analyze from the call transcripts? What tools do you have available?">>]

\* what the user may type in the chat form
ChatInputs == { <<>>, <<" ", " ">>, <<" ", "hello">>, QuickQueries.quick_help }

\* what the user may type in the search box
SearchInputs == { <<>>, <<"refund">> }

\* init_session_state; the cache keys are created as None by get_cached_tools
Init ==
    /\ api_connected = FALSE
    /\ chat_history = <<>>
    /\ api_checking = FALSE
    /\ cached_tools = None
    /\ cached_tools_time = NoTime
    /\ now = 0
    /\ pc = "run"
    /\ pending = None
    /\ chat_status = None
    /\ rendered_sent = 0
    /\ sent = 0
    /\ lastAction = "none"
    /\ lastGet = None
    /\ result = None
    /\ search_results = None
    /\ applied = None
    /\ probed = <<>>
    /\ served = NoCalls

\* mutant: every turn is counted
user_messages_all(history) == Len(history)

\* len([m for m in chat_history if m["role"] == "user"])
user_messages(history) ==
    Cardinality({ i \in 1 .. Len(history) : history[i].role = "user" })

\* the Chat Status section of the sidebar
ChatStatus(connected, history) ==
    IF connected
    THEN IF history # <<>>
         THEN [shown |-> "messages", user_messages |-> user_messages(history)]
         ELSE [shown |-> "no_history"]
    ELSE [shown |-> "unavailable"]

\* mutant: the tools status is fetched whatever the connection state
ToolsShownAlways(connected) == TRUE

\* the if around the sidebar's tools status: get_cached_tools() is called
\* only in the branch of a connected session
ToolsShown(connected) == connected

\* The record of a get_cached_tools call: its argument, api_connected when it
\* was made, when it was made, what it did, and whether the cache was then due
\* for a refresh without force.
GetRecord(force_refresh, connected, call) ==
    [force_refresh |-> force_refresh, connected |-> connected, at |-> now,
     fetches |-> call.fetches,
     api_status |-> call.api_status, raised |-> call.raised, value |-> call.value,
     due |-> NeedsRefresh(FALSE, cached_tools, cached_tools_time, now)]

\* mutant: the auto-check runs in every execution
AutoCheckDueAlways(checking) == TRUE

\* the condition of the auto-check: api_checking is still False
AutoCheckDue(checking) == ~checking

\* The answers the remote can give to the probe of the auto-check on first
\* load, and to the status request of a get_cached_tools call.
AutoProbes(env) == IF AutoCheckDue(api_checking) THEN env.probes ELSE {NotCalled}

Statuses(env, called, force_refresh) ==
    IF called /\ NeedsRefresh(force_refresh, cached_tools, cached_tools_time, now)
    THEN env.statuses ELSE {NotCalled}

\* main() from the auto-check on first load to the end of the sidebar: what it
\* leaves in the session and shows
AutoCheck(probe) ==
    IF AutoCheckDue(api_checking) THEN check_api_connection(probe) ELSE api_connected

Sidebar(probe, status) ==
    LET connected == AutoCheck(probe)
        shown == ToolsShown(connected)
        call == get_cached_tools(FALSE, cached_tools, cached_tools_time, now, status)
    IN  [api_connected |-> connected,
         cached_tools |-> IF shown THEN call.cached_tools ELSE cached_tools,
         cached_tools_time |-> IF shown THEN call.cached_tools_time
                               ELSE cached_tools_time,
         lastGet |-> IF shown THEN GetRecord(FALSE, connected, call) ELSE None,
         probed |-> IF AutoCheckDue(api_checking)
                    THEN <<[by |-> "auto", ret |-> connected]>> ELSE <<>>,
         chat_status |-> ChatStatus(connected, chat_history)]

\* the session after the sidebar, but for api_connected and chat_history
AfterSidebar(h) ==
    /\ api_checking' = TRUE
    /\ cached_tools' = h.cached_tools
    /\ cached_tools_time' = h.cached_tools_time
    /\ lastGet' = h.lastGet
    /\ chat_status' = h.chat_status
    /\ rendered_sent' = sent
    /\ probed' = h.probed

\* An execution of the script with no widget pressed: the first load, and the
\* re-execution st.rerun() asks for.
Run(env) ==
    /\ pc = "run"
    /\ \E probe \in AutoProbes(env) :
       \E status \in Statuses(env, ToolsShown(AutoCheck(probe)), FALSE) :
        LET h == Sidebar(probe, status)
        IN  /\ AfterSidebar(h)
            /\ api_connected' = h.api_connected
    /\ served' = NoCalls
    /\ pc' = "idle"
    /\ lastAction' = "none"
    /\ result' = None
    /\ UNCHANGED <<chat_history, now, pending, sent, search_results>>
    /\ UNCHANGED applied

\* "Refresh Connection" in the sidebar: probe, forced refresh, rerun
SidebarRefresh(env) ==
    /\ Interactive(pc)
    /\ \E probe \in env.probes, status \in Statuses(env, TRUE, TRUE) :
        LET call == get_cached_tools(TRUE, cached_tools, cached_tools_time, now, status)
        IN  /\ api_connected' = check_api_connection(probe)
            /\ cached_tools' = call.cached_tools
            /\ cached_tools_time' = call.cached_tools_time
            /\ lastGet' = GetRecord(TRUE, check_api_connection(probe), call)
            /\ probed' = <<[by |-> "sidebar_refresh",
                            ret |-> check_api_connection(probe)]>>
    /\ served' = Calls(probed', lastGet', 0)
    /\ pc' = "run"
    /\ lastAction' = "sidebar_refresh"
    /\ result' = None
    /\ UNCHANGED <<chat_history, api_checking, now, pending, chat_status,
                   rendered_sent, sent, search_results>>
    /\ UNCHANGED applied

\* "Test Connection" in the sidebar: probe, rerun
SidebarTestConnection(env) ==
    /\ Interactive(pc)
    /\ \E probe \in env.probes :
        /\ api_connected' = check_api_connection(probe)
        /\ probed' = <<[by |-> "sidebar_test_connection",
                        ret |-> check_api_connection(probe)]>>
    /\ served' = Calls(probed', None, 0)
    /\ pc' = "run"
    /\ lastAction' = "sidebar_test_connection"
    /\ lastGet' = None
    /\ result' = None
    /\ UNCHANGED <<chat_history, api_checking, cached_tools, cached_tools_time, now,
                   pending, chat_status, rendered_sent, sent, search_results>>
    /\ UNCHANGED applied

\* "Test Connection" in the main area: the sidebar runs first, then probe, rerun
MainTestConnection(env) ==
    /\ Interactive(pc)
    /\ \E first \in AutoProbes(env), probe \in env.probes :
       \E status \in Statuses(env, ToolsShown(AutoCheck(first)), FALSE) :
        LET h == Sidebar(first, status)
        IN  /\ api_checking' = TRUE
            /\ cached_tools' = h.cached_tools
            /\ cached_tools_time' = h.cached_tools_time
            /\ lastGet' = h.lastGet
            /\ chat_status' = h.chat_status
            /\ rendered_sent' = sent
            /\ api_connected' = check_api_connection(probe)
            /\ probed' = h.probed \o <<[by |-> "main_test_connection",
                                        ret |-> check_api_connection(probe)]>>
    /\ served' = Calls(probed', lastGet', 0)
    /\ pc' = "run"
    /\ lastAction' = "main_test_connection"
    /\ result' = None
    /\ UNCHANGED <<chat_history, now, pending, sent, search_results>>
    /\ UNCHANGED applied

-----------------------------------------------------------------------------
(* Turns and dispatch *)

\* mutant: the turn is inserted at the front
appendFront(history, turn) == <<turn>> \o history

\* chat_history.append(turn)
append(history, turn) == Append(history, turn)

UserTurn(content, timestamp) ==
    [role |-> "user", content |-> content, timestamp |-> timestamp]

\* result.get('success') as a condition
Succeeded(res) == Has(res, "success") /\ res.obj.success = TRUE

\* mutant: the turn of a failed query carries the service's counts too
ChatAssistantTurnDetailed(res, start_time, end_time, timestamp) ==
    [role |-> "assistant",
     content |-> IF Succeeded(res)
                 THEN Get(res, "response", <<"No response received">>)
                 ELSE <<"Error: ">> \o Get(res, "error", <<"Unknown error">>),
     timestamp |-> timestamp,
     execution_time |-> end_time - start_time,
     api_rounds |-> Get(res, "total_rounds", 0),
     api_execution_time |-> Get(res, "total_execution_time", 0)]

\* the assistant turn of the chat form for a result dict
ChatAssistantTurn(res, start_time, end_time, timestamp) ==
    IF Succeeded(res)
    THEN [role |-> "assistant",
          content |-> Get(res, "response", <<"No response received">>),
          timestamp |-> timestamp,
          execution_time |-> end_time - start_time,
          api_rounds |-> Get(res, "total_rounds", 0),
          api_execution_time |-> Get(res, "total_execution_time", 0)]
    ELSE [role |-> "assistant",
          content |-> <<"Error: ">> \o Get(res, "error", <<"Unknown error">>),
          timestamp |-> timestamp,
          execution_time |-> end_time - start_time]

\* the assistant turn of quick_query for a result dict
QuickAssistantTurn(res, start_time, end_time, timestamp) ==
    IF Succeeded(res)
    THEN [role |-> "assistant",
          content |-> Get(res, "response", <<"No response received">>),
          timestamp |-> timestamp,
          execution_time |-> end_time - start_time]
    ELSE [role |-> "assistant",
          content |-> <<"Error: ">> \o Get(res, "error", <<"Unknown error">>),
          timestamp |-> timestamp,
          execution_time |-> end_time - start_time]

\* the assistant turn both except handlers append
ExceptionTurn(e, timestamp) ==
    [role |-> "assistant", content |-> <<"API Error: ">> \o e,
     timestamp |-> timestamp]

\* The assistant turn a dispatch appends once its process_query call returned
\* r at end_time: the turn of the try body when r is a dict, the turn of the
\* except handler when result.get raised.
DispatchTurn(entry, r, start_time, end_time) ==
    IF ~r.raised /\ IsDict(r.value)
    THEN IF entry = "chat"
         THEN ChatAssistantTurn(r.value, start_time, end_time, end_time)
         ELSE QuickAssistantTurn(r.value, start_time, end_time, end_time)
    ELSE ExceptionTurn(IF r.raised THEN r.error
                       ELSE <<"object has no attribute 'get'">>, end_time)

\* search_calls_transcript_database, after its process_query call returned r
SearchFailure(error) ==
    [success |-> FALSE, error |-> error, results |-> <<>>, total_found |-> 0]

\* mutant: every successful search counts as one result
search_counts_every_success(r) ==
    IF r.raised THEN SearchFailure(<<"Search failed: ">> \o r.error)
    ELSE IF ~IsDict(r.value)
         THEN SearchFailure(<<"Search failed: ", "object has no attribute 'get'">>)
         ELSE IF Succeeded(r.value)
              THEN [success |-> TRUE, results |-> <<>>, total_found |-> 1,
                    response_text |-> Get(r.value, "response", <<>>)]
              ELSE SearchFailure(Get(r.value, "error", <<"Search failed">>))

search_calls_transcript_database(r) ==
    IF r.raised THEN SearchFailure(<<"Search failed: ">> \o r.error)
    ELSE IF ~IsDict(r.value)
         THEN SearchFailure(<<"Search failed: ", "object has no attribute 'get'">>)
         ELSE IF Succeeded(r.value)
              THEN [success |-> TRUE, results |-> <<>>,
                    total_found |-> IF Get(r.value, "response", <<>>) # <<>>
                                    THEN 1 ELSE 0,
                    response_text |-> Get(r.value, "response", <<>>)]
              ELSE SearchFailure(Get(r.value, "error", <<"Search failed">>))

\* the query string the search builds
SearchQuery(query, max_results) ==
    <<"Search for '">> \o query
        \o <<"' in the transcript database, limit to ", ToString(max_results),
             " results">>

\* mutant: the search box and button are never disabled
SearchNeverDisabled(connected) == FALSE

\* disabled= of the search box and button
SearchDisabled(connected) == ~connected

\* the guard at the top of quick_query
QuickQueryAllowed(connected) == connected

\* mutant: the handler drops the last turn only
ClearChatPop(st) ==
    [st EXCEPT !.chat_history = SubSeq(st.chat_history, 1, Len(st.chat_history) - 1)]

\* mutant: the handler resets the tools cache too
ClearChatAll(st) ==
    [st EXCEPT !.chat_history = <<>>, !.cached_tools = None,
               !.cached_tools_time = NoTime]

\* mutant: the handler marks the session disconnected too
ClearChatDisconnect(st) ==
    [st EXCEPT !.chat_history = <<>>, !.api_connected = FALSE]

\* the Clear Chat History handler, on the session fields
ClearChat(st) == [st EXCEPT !.chat_history = <<>>]

\* The user and assistant turns of a dispatch go in together or not at all.
Fits(env) == Len(chat_history) + 2 <= env.turns

\* Send in the chat form: sidebar, then, in the branch of a connected session,
\* the user turn is appended and the query is submitted, unless the text is
\* blank.  (A press reaches the script whatever the session holds by then; the
\* script decides what it does with it.)
Send(env) ==
    /\ Interactive(pc)
    /\ \E user_input \in env.inputs, probe \in AutoProbes(env) :
       \E status \in Statuses(env, ToolsShown(AutoCheck(probe)), FALSE) :
        LET h == Sidebar(probe, status)
        IN  /\ AfterSidebar(h)
            /\ api_connected' = h.api_connected
            /\ IF h.api_connected /\ strip(user_input) # <<>>
               THEN /\ Fits(env)
                    /\ chat_history' = append(chat_history, UserTurn(user_input, now))
                    /\ pending' = [entry |-> "chat", query |-> user_input,
                                   start_time |-> now]
                    /\ sent' = sent + 1
                    /\ pc' = "query"
               ELSE /\ UNCHANGED <<chat_history, pending, sent>>
                    /\ pc' = "idle"
    /\ served' = Calls(probed', lastGet', IF pc' = "query" THEN 1 ELSE 0)
    /\ lastAction' = "chat_form"
    /\ result' = None
    /\ UNCHANGED <<now, search_results>>
    /\ UNCHANGED applied

\* One of the Quick Actions buttons: sidebar, then, in the branch of a
\* connected session, quick_query up to its process_query call
QuickAction(env) ==
    /\ Interactive(pc)
    /\ \E key \in env.keys, probe \in AutoProbes(env) :
       \E status \in Statuses(env, ToolsShown(AutoCheck(probe)), FALSE) :
        LET h == Sidebar(probe, status)
            query == QuickQueries[key]
        IN  /\ AfterSidebar(h)
            /\ api_connected' = h.api_connected
            /\ lastAction' = key
            /\ IF h.api_connected /\ QuickQueryAllowed(h.api_connected)
               THEN /\ Fits(env)
                    /\ chat_history' = append(chat_history, UserTurn(query, now))
                    /\ pending' = [entry |-> "quick", query |-> query,
                                   start_time |-> now]
                    /\ sent' = sent + 1
                    /\ pc' = "query"
               ELSE /\ UNCHANGED <<chat_history, pending, sent>>
                    /\ pc' = "idle"
    /\ served' = Calls(probed', lastGet', IF pc' = "query" THEN 1 ELSE 0)
    /\ result' = None
    /\ UNCHANGED <<now, search_results>>
    /\ UNCHANGED applied

\* The Search button, rendered in the branch of a disconnected session.  A
\* disabled button sends nothing: no execution of the script follows the click.
Search(env) ==
    /\ Interactive(pc)
    /\ ~api_connected
    /\ lastAction' = "basic_search_button"
    /\ IF SearchDisabled(api_connected)
       THEN /\ lastGet' = None
            /\ result' = None
            /\ probed' = <<>>
            /\ UNCHANGED <<api_connected, chat_history, api_checking, cached_tools,
                           cached_tools_time, pc, pending, chat_status,
                           rendered_sent>>
       ELSE \E search_query \in env.searches, probe \in AutoProbes(env) :
            \E status \in Statuses(env, ToolsShown(AutoCheck(probe)), FALSE) :
            LET h == Sidebar(probe, status)
            IN  /\ AfterSidebar(h)
                /\ api_connected' = h.api_connected
                /\ result' = None
                /\ UNCHANGED chat_history
                /\ IF ~h.api_connected /\ search_query # <<>>
                   THEN /\ pending' = [entry |-> "search",
                                       query |-> SearchQuery(search_query, 5),
                                       start_time |-> now]
                        /\ pc' = "query"
                   ELSE /\ UNCHANGED pending
                        /\ pc' = "idle"
    /\ served' = Calls(probed', lastGet', IF pc' = "query" THEN 1 ELSE 0)
    /\ UNCHANGED <<now, sent, search_results>>
    /\ UNCHANGED applied

\* process_query returns: the assistant turn is appended and st.rerun() asks
\* for a re-execution; an except handler appends its turn and the execution
\* runs on to its end.
QueryReturns(env) ==
    /\ pc = "query"
    /\ \E out \in env.queries :
        LET r == process_query(pending.query, out)
            ok == ~r.raised /\ IsDict(r.value)
        IN  /\ result' = [out |-> out, ret |-> r]
            /\ CASE pending.entry \in {"chat", "quick"} ->
                     /\ chat_history' = append(chat_history,
                            DispatchTurn(pending.entry, r, pending.start_time, now))
                     /\ pc' = IF ok THEN "run" ELSE "idle"
                     /\ UNCHANGED search_results
                 [] pending.entry = "search" ->
                     /\ search_results' = search_calls_transcript_database(r)
                     /\ pc' = "idle"
                     /\ UNCHANGED chat_history
    /\ pending' = None
    /\ lastGet' = None
    /\ probed' = <<>>
    /\ UNCHANGED served
    /\ UNCHANGED <<api_connected, api_checking, cached_tools, cached_tools_time, now,
                   chat_status, rendered_sent, sent, lastAction>>
    /\ UNCHANGED applied

\* Clear Chat History: sidebar, then, in the branch of a connected session,
\* the log is emptied and st.rerun() asks for a re-execution
ClearChatHistory(env) ==
    /\ Interactive(pc)
    /\ \E probe \in AutoProbes(env) :
       \E status \in Statuses(env, ToolsShown(AutoCheck(probe)), FALSE) :
        LET h == Sidebar(probe, status)
            st == [chat_history |-> chat_history,
                   api_connected |-> h.api_connected,
                   cached_tools |-> h.cached_tools,
                   cached_tools_time |-> h.cached_tools_time]
            after == IF h.api_connected THEN ClearChat(st) ELSE st
        IN  /\ api_checking' = TRUE
            /\ lastGet' = h.lastGet
            /\ chat_status' = h.chat_status
            /\ rendered_sent' = sent
            /\ probed' = h.probed
            /\ chat_history' = after.chat_history
            /\ api_connected' = after.api_connected
            /\ cached_tools' = after.cached_tools
            /\ cached_tools_time' = after.cached_tools_time
            /\ sent' = IF h.api_connected THEN 0 ELSE sent
            /\ pc' = IF h.api_connected THEN "run" ELSE "idle"
    /\ served' = Calls(probed', lastGet', 0)
    /\ lastAction' = "clear_chat"
    /\ result' = None
    /\ UNCHANGED <<now, pending, search_results>>
    /\ UNCHANGED applied

\* time passes
TickSteps == { cache_duration, cache_duration + 1 }

Tick(env) ==
    /\ \E d \in TickSteps :
        /\ now + d <= env.time
        /\ now' = now + d
    /\ UNCHANGED <<api_connected, chat_history, api_checking, cached_tools,
                   cached_tools_time, pc, pending, chat_status, rendered_sent, sent,
                   lastAction, lastGet, result, search_results>>
    /\ UNCHANGED <<applied, probed, served>>

\* one step of the session, the user and the remote drawing from env
Step(env) ==
    \/ Run(env)
    \/ SidebarRefresh(env)
    \/ SidebarTestConnection(env)
    \/ MainTestConnection(env)
    \/ Send(env)
    \/ QuickAction(env)
    \/ Search(env)
    \/ QueryReturns(env)
    \/ ClearChatHistory(env)
    \/ Tick(env)

\* every answer of the remote and every input, on a log of one dispatch
Env ==
    [probes |-> ProbeOutcomes, statuses |-> StatusOutcomes,
     queries |-> QueryOutcomes, inputs |-> ChatInputs,
     keys |-> DOMAIN QuickQueries, searches |-> SearchInputs,
     turns |-> MaxTurns, time |-> MaxTime]

Next == Step(Env)

Spec == Init /\ [][Next]_vars

\* a longer log, with fewer answers of the remote and fewer inputs
LogEnv ==
    [probes |-> ProbeOutcomes,
     statuses |-> { Exception(<<"timeout">>),
                    Response(200, JsonObject([tools_count |-> 7,
                                              azure_openai_connected |-> TRUE,
                                              mcp_server_connected |-> FALSE])) },
     queries |-> { Exception(<<"timeout">>), Response(200, JsonArray),
                   Response(200, JsonObject([success |-> TRUE,
                                             response |-> <<"answer">>,
                                             total_rounds |-> 3,
                                             total_execution_time |-> 2])) },
     inputs |-> { <<" ", " ">>, QuickQueries.quick_help },
     keys |-> { "quick_help", "quick_database" },
     searches |-> SearchInputs,
     turns |-> MaxLogTurns, time |-> MaxTime]

NextLog == Step(LogEnv)

SpecLog == Init /\ [][NextLog]_vars

-----------------------------------------------------------------------------
(* The functions of the module, each applied on its own to every answer of *)
(* the remote: applied records the arguments, the answer and the return.   *)

StatusCodes == { 200, 201, 204, 301, 404, 500, 503 }

Failures == { Exception(<<"timeout">>), Exception(<<"connection refused">>) }

ProbeAnswers == Failures \cup { Response(c, None) : c \in StatusCodes }

\* a status document with all three fields, and with every subset of them
FullStatus ==
    [tools_count |-> 7, azure_openai_connected |-> TRUE,
     mcp_server_connected |-> TRUE]

StatusDocuments ==
    { IF S = {} THEN EmptyObject ELSE JsonObject([k \in S |-> FullStatus[k]]) :
          S \in SUBSET (DOMAIN FullStatus) }
        \cup StatusBodies
        \cup { JsonObject([version |-> 1]), None }

StatusAnswers ==
    Failures \cup { Response(c, None) : c \in StatusCodes \ {200} }
        \cup { Response(200, b) : b \in StatusDocuments }

QueryDocuments ==
    QueryBodies
        \cup { JsonObject([success |-> TRUE]),
               JsonObject([success |-> TRUE, response |-> <<" ">>,
                           total_rounds |-> 1, total_execution_time |-> 1]),
               JsonObject([success |-> FALSE]),
               EmptyObject, InvalidJson }

QueryAnswers ==
    Failures \cup { Response(c, None) : c \in StatusCodes \ {200} }
        \cup { Response(200, b) : b \in QueryDocuments }

\* the cache as a session can hold it: empty, a successful value or a failed
\* value with the time of its refresh, an error value with no time
CacheStates ==
    { [cached_tools |-> None, cached_tools_time |-> NoTime],
      [cached_tools |-> SuccessTools(JsonObject(FullStatus)), cached_tools_time |-> 0],
      [cached_tools |-> FailedTools, cached_tools_time |-> 0],
      [cached_tools |-> ErrorTools(<<"object has no attribute 'get'">>),
       cached_tools_time |-> NoTime] }

CallTimes == { 0, cache_duration, cache_duration + 1, 2 * cache_duration }

CallCheckApiConnection ==
    /\ \E out \in ProbeAnswers :
        applied' = [fn |-> "check_api_connection", out |-> out,
                    ret |-> check_api_connection(out)]
    /\ UNCHANGED session

CallGetStatus ==
    /\ \E out \in StatusAnswers :
        applied' = [fn |-> "get_status", out |-> out, ret |-> get_status(out)]
    /\ UNCHANGED session

CallProcessQuery ==
    /\ \E query \in { <<"hello">>, QuickQueries.quick_help }, out \in QueryAnswers :
        applied' = [fn |-> "process_query", query |-> query, out |-> out,
                    ret |-> process_query(query, out)]
    /\ UNCHANGED session

CallGetCachedTools ==
    /\ \E force_refresh \in BOOLEAN, c \in CacheStates, current_time \in CallTimes :
       \E out \in IF NeedsRefresh(force_refresh, c.cached_tools,
                                  c.cached_tools_time, current_time)
                  THEN StatusAnswers ELSE {NotCalled} :
        applied' = [fn |-> "get_cached_tools", force_refresh |-> force_refresh,
                    cached_tools |-> c.cached_tools,
                    cached_tools_time |-> c.cached_tools_time,
                    current_time |-> current_time, out |-> out,
                    ret |-> get_cached_tools(force_refresh, c.cached_tools,
                                             c.cached_tools_time, current_time, out)]
    /\ UNCHANGED session

CallSearch ==
    /\ \E query \in SearchInputs, max_results \in { 1, 5 }, out \in QueryAnswers :
        applied' = [fn |-> "search_calls_transcript_database", query |-> query,
                    max_results |-> max_results, out |-> out,
                    result |-> process_query(SearchQuery(query, max_results), out),
                    ret |-> search_calls_transcript_database(
                                process_query(SearchQuery(query, max_results), out))]
    /\ UNCHANGED session

NextCalls ==
    \/ CallCheckApiConnection
    \/ CallGetStatus
    \/ CallProcessQuery
    \/ CallGetCachedTools
    \/ CallSearch

SpecCalls == Init /\ [][NextCalls]_vars

-----------------------------------------------------------------------------
(* Properties *)

\* a step in which get_cached_tools was called
GetStep == now' = now /\ lastGet' # None

\* the cache holds the value a successful refresh stored, not older than the TTL
FreshSuccess ==
    /\ cached_tools # None
    /\ cached_tools.status = "success"
    /\ cached_tools_time # NoTime
    /\ now - cached_tools_time <= cache_duration

\* C1: a get_cached_tools(force_refresh=False) call made no later than 60
\* seconds after a refresh whose status fetch succeeded returns the value that
\* refresh stored, makes no get_status call and leaves the cache as it is.
C1_CacheTTL ==
    [][ (GetStep /\ ~lastGet'.force_refresh /\ FreshSuccess)
            => /\ lastGet'.fetches = 0
               /\ ~lastGet'.raised
               /\ lastGet'.value = cached_tools
               /\ cached_tools' = cached_tools
               /\ cached_tools_time' = cached_tools_time ]_vars

\* an unforced call at age exactly 60 went without a fetch
C1_Witness ==
    /\ lastGet # None
    /\ ~lastGet.force_refresh
    /\ lastGet.fetches = 0
    /\ cached_tools.status = "success"
    /\ lastGet.at - cached_tools_time = cache_duration
    /\ lastGet.value = cached_tools

\* C2: a get_cached_tools(force_refresh=True) call makes exactly one
\* get_status call, whatever the cache holds.
C2_ForcedRefresh ==
    (lastGet # None /\ lastGet.force_refresh) => lastGet.fetches = 1

\* a forced call on a cache that was not due fetched once
C2_Witness ==
    /\ lastGet # None
    /\ lastGet.force_refresh
    /\ ~lastGet.due
    /\ lastGet.fetches = 1

\* C3: after every refresh attempt, whatever its outcome, cached_tools_time is
\* the time of the attempt.
C3_TimeStampedOnEveryAttempt ==
    [][ (GetStep /\ lastGet'.fetches = 1) => cached_tools_time' = now ]_vars

OutcomeClass(out) ==
    IF out.kind = "exception" THEN "exception"
    ELSE IF out.status_code # 200 THEN "non_200"
    ELSE IF IsDict(out.body) /\ Has(out.body, "success")
         THEN IF out.body.obj.success = TRUE THEN "success" ELSE "failure_flag"
         ELSE "other"

\* C5: for a transport outcome that is an exception or timeout, a non-200
\* status, or a 200 with a success flag, process_query returns a result dict
\* and does not raise, and its success field is true only for 200/success.
C5_DispatchNormalization ==
    (result # None /\ OutcomeClass(result.out) # "other")
        => /\ ~result.ret.raised
           /\ IsDict(result.ret.value)
           /\ Has(result.ret.value, "success")
           /\ (result.ret.value.obj.success = TRUE)
                  <=> (OutcomeClass(result.out) = "success")

\* a timeout came back as a failure dict
C5_Witness ==
    /\ result # None
    /\ OutcomeClass(result.out) = "exception"
    /\ ~result.ret.raised
    /\ result.ret.value.obj.success = FALSE

\* C6: the count the Chat Status section shows is the number of user turns
\* appended since the last clear, and "no history" is shown when it is 0.
C6_UserMessageCount ==
    chat_status # None
        => /\ chat_status.shown = "messages"
                => chat_status.user_messages = rendered_sent
           /\ chat_status.shown = "no_history" => rendered_sent = 0

\* two user turns are in the log and 2 is shown
C6_Witness ==
    /\ chat_status # None
    /\ chat_status.shown = "messages"
    /\ chat_status.user_messages = 2
    /\ Len(chat_history) = 4

\* C7: every step leaves chat_history unchanged, appends to it, or empties it.
C7_AppendOnly ==
    [][ \/ chat_history' = chat_history
        \/ /\ Len(chat_history') > Len(chat_history)
           /\ SubSeq(chat_history', 1, Len(chat_history)) = chat_history
        \/ chat_history' = <<>> ]_vars

\* a log of four turns was cleared
C7_Witness ==
    /\ chat_history = <<>>
    /\ lastAction = "clear_chat"
    /\ chat_status # None
    /\ chat_status.shown = "messages"
    /\ chat_status.user_messages = 2

\* C8: the turns of chat_history are in non-decreasing timestamp order.
C8_TimestampOrder ==
    \A i, j \in 1 .. Len(chat_history) :
        i < j => chat_history[i].timestamp <= chat_history[j].timestamp

\* four turns, the first strictly older than the last
C8_Witness ==
    /\ Len(chat_history) = 4
    /\ chat_history[1].timestamp < chat_history[2].timestamp
    /\ chat_history[2].timestamp < chat_history[4].timestamp

\* the execution the Clear Chat History press starts, and the re-execution
\* it asks for
ClearStep == pc = "idle" /\ pc' = "run" /\ lastAction' = "clear_chat"
RerenderAfterClear == pc = "run" /\ lastAction = "clear_chat" /\ pc' = "idle"

CacheUnchanged ==
    cached_tools' = cached_tools /\ cached_tools_time' = cached_tools_time

\* the cache holds the value and the time of a successful refresh
HoldsSuccess ==
    cached_tools # None /\ cached_tools.status = "success"
        /\ cached_tools_time # NoTime

\* C9 as stated, for a cache that holds a successful value: the clear empties
\* the log and leaves api_connected, cached_tools and cached_tools_time as
\* they were, re-render included.
C9_ClearLeavesCache ==
    [][ /\ (ClearStep /\ HoldsSuccess)
            => chat_history' = <<>> /\ api_connected' = api_connected
               /\ CacheUnchanged
        /\ (RerenderAfterClear /\ HoldsSuccess)
            => chat_history' = chat_history /\ api_connected' = api_connected
               /\ CacheUnchanged ]_vars

\* C9 amended: the clear empties the log and leaves api_connected as it was;
\* cached_tools and cached_tools_time are left as they were by every
\* execution, the re-render included, at which the cache is not due for a
\* refresh (value and time set, age <= 60).
C9_ClearLeavesFreshCache ==
    [][ /\ ClearStep
            => /\ chat_history' = <<>>
               /\ api_connected' = api_connected
               /\ ~NeedsRefresh(FALSE, cached_tools, cached_tools_time, now)
                    => CacheUnchanged
        /\ RerenderAfterClear
            => /\ chat_history' = chat_history
               /\ api_connected' = api_connected
               /\ ~NeedsRefresh(FALSE, cached_tools, cached_tools_time, now)
                    => CacheUnchanged ]_vars

\* the log was cleared while the cache was fresh, and the cache was kept
C9_Witness ==
    /\ pc = "run"
    /\ lastAction = "clear_chat"
    /\ chat_history = <<>>
    /\ lastGet # None
    /\ ~lastGet.due
    /\ lastGet.fetches = 0
    /\ cached_tools.status = "success"

\* api_status.get raises: the status document is truthy and not a dict
RefreshRaises(api_status) == Truthy(api_status) /\ ~IsDict(api_status)

DegradedError(tools) ==
    /\ tools # None
    /\ tools.count = 0
    /\ ~tools.azure_connected
    /\ ~tools.mcp_connected
    /\ tools.status = "error"
    /\ "error" \in DOMAIN tools

\* C10: when an exception is raised inside the refresh path, a cached value
\* is left unchanged, an empty cache gets the degraded value with status
\* "error" and an error field, and get_cached_tools returns the cached value.
C10_RefreshException ==
    [][ (GetStep /\ lastGet'.fetches = 1 /\ RefreshRaises(lastGet'.api_status))
            => /\ ~lastGet'.raised
               /\ lastGet'.value = cached_tools'
               /\ cached_tools # None => cached_tools' = cached_tools
               /\ cached_tools = None => DegradedError(cached_tools') ]_vars

\* the refresh raised and the successful value of before is still cached
C10_Witness ==
    /\ lastGet # None
    /\ lastGet.fetches = 1
    /\ RefreshRaises(lastGet.api_status)
    /\ ~lastGet.raised
    /\ cached_tools.status = "success"
    /\ lastGet.value = cached_tools

\* a get_cached_tools call applied on its own that performed a refresh
Refreshed ==
    /\ applied # None
    /\ applied.fn = "get_cached_tools"
    /\ applied.ret.fetches = 1

\* C11: when a refresh is performed and get_status returns None, the cached
\* value becomes {count 0, azure_connected false, mcp_connected false, status
\* "failed"}, whatever was cached before, and get_cached_tools returns it.
C11_NullStatusDegrades ==
    (Refreshed /\ applied.ret.api_status = None)
        => /\ ~applied.ret.raised
           /\ applied.ret.cached_tools =
                  [count |-> 0, azure_connected |-> FALSE, mcp_connected |-> FALSE,
                   status |-> "failed"]
           /\ applied.ret.value = applied.ret.cached_tools

\* a stale successful value was replaced by the failed value after a timeout
C11_Witness ==
    /\ Refreshed
    /\ applied.out = Exception(<<"timeout">>)
    /\ applied.ret.api_status = None
    /\ applied.cached_tools # None
    /\ applied.cached_tools.status = "success"
    /\ ~applied.force_refresh
    /\ applied.ret.value.status = "failed"

\* C12: check_api_connection returns true if and only if the GET on the
\* service root answered with status 200; every other status, a timeout and a
\* transport exception give false, and no call raises.
C12_ProbeTrueIff200 ==
    (applied # None /\ applied.fn = "check_api_connection")
        => /\ applied.ret \in BOOLEAN
           /\ applied.out.kind = "exception" => applied.ret = FALSE
           /\ applied.out.kind = "response"
                => (applied.ret = TRUE <=> applied.out.status_code = 200)

\* the root answered 204 and the probe returned false
C12_Witness ==
    /\ applied # None
    /\ applied.fn = "check_api_connection"
    /\ applied.out.kind = "response"
    /\ applied.out.status_code = 204
    /\ applied.ret = FALSE

\* the request did not come back with status 200
TransportFailure(out) == out.kind = "exception" \/ out.status_code # 200

\* C13: on a timeout, a connection error or a non-200 status process_query
\* returns a record with success false, a non-empty error, total_rounds 0 and
\* total_execution_time 0, whose response text names the failure: the HTTP
\* status, or the transport exception.
C13_TransportFailureRecord ==
    (applied # None /\ applied.fn = "process_query" /\ TransportFailure(applied.out))
        => /\ ~applied.ret.raised
           /\ IsDict(applied.ret.value)
           /\ LET v == applied.ret.value
              IN  /\ Has(v, "success") /\ v.obj.success = FALSE
                  /\ Has(v, "error") /\ v.obj.error # <<>>
                  /\ Has(v, "total_rounds") /\ v.obj.total_rounds = 0
                  /\ Has(v, "total_execution_time") /\ v.obj.total_execution_time = 0
                  /\ Has(v, "response")
                  /\ IF applied.out.kind = "exception"
                     THEN v.obj.response = <<"Request error: ">> \o applied.out.msg
                     ELSE v.obj.response =
                              <<"API request failed with status ",
                                ToString(applied.out.status_code)>>

\* a 503 came back as the failure record that names the status
C13_Witness ==
    /\ applied # None
    /\ applied.fn = "process_query"
    /\ applied.out.kind = "response"
    /\ applied.out.status_code = 503
    /\ applied.ret.value.obj.error = <<"HTTP ", "503">>
    /\ applied.ret.value.obj.total_rounds = 0

\* the role the turn at position i has in a log user, assistant, user, ...
RoleAt(i) == IF i % 2 = 1 THEN "user" ELSE "assistant"

QueryReturned == pc = "query" /\ pc' # "query"

\* a timeout or transport exception, a non-200 status, or a 200 whose
\* success flag is false
FailedOutcome(out) == OutcomeClass(out) \in {"exception", "non_200", "failure_flag"}

\* C15: a failed query appends exactly one turn, with role "assistant", a
\* content that states the error and no round count, and the session goes on:
\* the script is re-executed with the connection state it had.
C15_FailureBecomesAssistantTurn ==
    [][ (QueryReturned /\ FailedOutcome(result'.out))
            => /\ Len(chat_history') = Len(chat_history) + 1
               /\ SubSeq(chat_history', 1, Len(chat_history)) = chat_history
               /\ LET t == chat_history'[Len(chat_history')]
                  IN  /\ t.role = "assistant"
                      /\ Len(t.content) > 1
                      /\ Head(t.content) = "Error: "
                      /\ "api_rounds" \notin DOMAIN t
               /\ pc' = "run"
               /\ api_connected' = api_connected ]_vars

\* the chat message timed out and the log ends with the error turn
C15_Witness ==
    /\ result # None
    /\ result.out = Exception(<<"timeout">>)
    /\ lastAction = "chat_form"
    /\ pc = "run"
    /\ Len(chat_history) = 2
    /\ chat_history[2].role = "assistant"
    /\ chat_history[2].content = <<"Error: ", "timeout">>

\* C16: a quick action with canned string s leaves the session as dispatching
\* s in the chat form does: the same user turn, and, for the same answer of
\* the remote, the same assistant turn field by field, the same connection
\* state and the same cache.
C16_QuickActionAsChatMessage ==
    [][ /\ (pc = "idle" /\ pc' = "query" /\ pending'.entry = "quick")
            => /\ chat_history' = append(chat_history, UserTurn(pending'.query, now))
               /\ pending'.start_time = now
        /\ (QueryReturned /\ pending.entry = "quick")
            => /\ chat_history' =
                      append(chat_history,
                             DispatchTurn("chat", result'.ret, pending.start_time, now))
               /\ api_connected' = api_connected
               /\ CacheUnchanged ]_vars

\* C17: the assistant turn of every successful dispatch carries the locally
\* measured execution_time and, separately, the round count and the execution
\* time the service reported.
C17_SuccessTurnCarriesBothTimings ==
    [][ (QueryReturned /\ OutcomeClass(result'.out) = "success")
            => LET t == chat_history'[Len(chat_history')]
                   res == result'.ret.value
               IN  /\ Len(chat_history') = Len(chat_history) + 1
                   /\ "execution_time" \in DOMAIN t
                   /\ t.execution_time = now - pending.start_time
                   /\ "api_rounds" \in DOMAIN t
                   /\ t.api_rounds = Get(res, "total_rounds", 0)
                   /\ "api_execution_time" \in DOMAIN t
                   /\ t.api_execution_time = Get(res, "total_execution_time", 0) ]_vars

\* C18 as stated: no get_status call is made while api_connected is false,
\* whatever asked for it, the Refresh Connection button included.
C18_NoStatusFetchWhileDisconnected ==
    (lastGet # None /\ lastGet.fetches = 1) => lastGet.connected

\* C18 amended: the get_cached_tools() call of a render, the only unforced
\* one, is made only while api_connected is true, so no render fetches the
\* status of a disconnected session; the forced call of Refresh Connection is
\* made whatever its probe returned.
C18_NoRenderFetchWhileDisconnected ==
    /\ (lastGet # None /\ ~lastGet.force_refresh) => lastGet.connected
    /\ (lastAction = "sidebar_refresh" /\ pc = "run")
            => (lastGet # None /\ lastGet.force_refresh /\ lastGet.fetches = 1)

\* the first load's probe failed: the page was rendered without a
\* get_cached_tools call, though the empty cache was due for a refresh
C18_Witness ==
    /\ api_checking
    /\ ~api_connected
    /\ pc = "idle"
    /\ lastAction = "none"
    /\ lastGet = None
    /\ cached_tools = None

\* C19: for every status document GET /status answers with under status 200
\* (a JSON object with any subset of the three fields, none of them included)
\* the cached summary has status "success", count = tools_count,
\* azure_connected = azure_openai_connected and mcp_connected =
\* mcp_server_connected, a missing field counting as 0 or false.
C19_StatusMapping ==
    (lastGet # None /\ lastGet.fetches = 1 /\ IsDict(lastGet.api_status))
        => lastGet.value =
              [count |-> Get(lastGet.api_status, "tools_count", 0),
               azure_connected |-> Get(lastGet.api_status, "azure_openai_connected", FALSE),
               mcp_connected |-> Get(lastGet.api_status, "mcp_server_connected", FALSE),
               status |-> "success"]

\* a search_calls_transcript_database call applied on its own
Searched == applied # None /\ applied.fn = "search_calls_transcript_database"

\* the service answered 200 with success true and a non-empty response text
AnsweredWithText(out) ==
    /\ OutcomeClass(out) = "success"
    /\ Has(out.body, "response")
    /\ out.body.obj.response # <<>>

\* C20: total_found is 1 exactly when the query succeeded with a non-empty
\* response text and 0 in every other case (empty or missing text, failure
\* flag, transport failure, exception), and every search returns a result
\* dict: none raises.
C20_TotalFound ==
    Searched
        => /\ {"success", "results", "total_found"} \subseteq DOMAIN applied.ret
           /\ applied.ret.total_found \in {0, 1}
           /\ applied.ret.total_found = 1 <=> AnsweredWithText(applied.out)
           /\ applied.ret.success = (OutcomeClass(applied.out) = "success")

\* the search for "refund" succeeded with an empty text: nothing was found
C20_Witness ==
    /\ Searched
    /\ applied.query = <<"refund">>
    /\ applied.max_results = 5
    /\ OutcomeClass(applied.out) = "success"
    /\ Has(applied.out.body, "response")
    /\ applied.out.body.obj.response = <<>>
    /\ applied.ret.success
    /\ applied.ret.total_found = 0

\* a get_cached_tools call applied on its own
ToolsRead == applied # None /\ applied.fn = "get_cached_tools"

\* C23: a get_cached_tools call issues a status fetch if and only if
\* force_refresh is true, or the cached value is None, or cached_tools_time
\* is None, or now - cached_tools_time > 60, and then exactly one; at age
\* exactly 60 an unforced call returns the cached value without a fetch.
C23_RefreshConditionExact ==
    ToolsRead
        => LET age == applied.current_time - applied.cached_tools_time
               due == \/ applied.force_refresh
                      \/ applied.cached_tools = None
                      \/ applied.cached_tools_time = NoTime
                      \/ age > 60
           IN  /\ applied.ret.fetches = IF due THEN 1 ELSE 0
               /\ (applied.out # NotCalled) <=> due
               /\ ~due => /\ applied.ret.value = applied.cached_tools
                          /\ applied.ret.cached_tools = applied.cached_tools
                          /\ applied.ret.cached_tools_time = applied.cached_tools_time

\* an unforced call at age exactly 60 returned the failed value it found
C23_Witness ==
    /\ ToolsRead
    /\ ~applied.force_refresh
    /\ applied.cached_tools = FailedTools
    /\ applied.current_time - applied.cached_tools_time = 60
    /\ applied.ret.fetches = 0
    /\ applied.ret.value = FailedTools

\* the re-execution of the script: the first load, or the one st.rerun() asked for
RunStep == pc = "run" /\ pc' = "idle"

\* the get_status calls of the step
FetchesInStep == IF lastGet' = None THEN 0 ELSE lastGet'.fetches

\* the dispatch being served blocked for more than 60 seconds
LongDispatch ==
    /\ result # None
    /\ chat_history # <<>>
    /\ "execution_time" \in DOMAIN chat_history[Len(chat_history)]
    /\ chat_history[Len(chat_history)].execution_time > cache_duration

\* C21 as stated, for the status fetch of a dispatch whose refresh stamped
\* its time: one widget press causes at most one probe, one status fetch and
\* one query submission, the re-execution it asks for included.
C21_NoAutomaticRetries ==
    [][ RunStep
            => /\ served.probes + Len(probed') <= 1
               /\ served.queries <= 1
               /\ (LongDispatch /\ served.fetches = 1
                        /\ cached_tools_time = served.fetch_at)
                    => FetchesInStep = 0 ]_vars

\* C21 amended: every execution of the script makes at most one probe, one
\* status fetch and one query submission, and one widget press causes at
\* most one probe and one query submission, its re-execution included; the
\* re-execution makes a second status fetch exactly when the session is
\* connected and the cache is due by then: cached_tools_time is None or more
\* than 60 seconds old, as after a dispatch that blocked for longer, or after
\* a refresh attempt that raised and stamped no time.
C21_OneCallPerExecution ==
    [][ /\ Len(probed') <= 1
        /\ FetchesInStep <= 1
        /\ (pc # "query" /\ pc' = "query") => served'.queries = 1
        /\ (pc = "query") => pc' = "query" \/ served' = served
        /\ RunStep
            => /\ served.probes + Len(probed') <= 1
               /\ served.queries <= 1
               /\ (served.fetches = 1 /\ api_connected)
                    => /\ FetchesInStep = 1
                          <=> \/ cached_tools_time = NoTime
                              \/ now - cached_tools_time > cache_duration
                       /\ (cached_tools_time = served.fetch_at
                             /\ now - served.fetch_at <= cache_duration)
                            => FetchesInStep = 0
               /\ (served.fetches = 1 /\ ~api_connected) => FetchesInStep = 0 ]_vars

\* a chat message failed at once, after a status fetch in its execution:
\* the re-execution is due and will make no transport call
C21_Witness ==
    /\ pc = "run"
    /\ lastAction = "chat_form"
    /\ result # None
    /\ result.out = Exception(<<"timeout">>)
    /\ served.fetches = 1
    /\ served.queries = 1
    /\ served.probes = 0
    /\ cached_tools_time = served.fetch_at
    /\ now = served.fetch_at

\* a query is in flight: the script is blocked in process_query
InFlight == pc = "query"

\* the step leaves the log as it is but for one more turn, an assistant turn
AnswerAppended ==
    /\ Len(chat_history') = Len(chat_history) + 1
    /\ SubSeq(chat_history', 1, Len(chat_history)) = chat_history
    /\ chat_history'[Len(chat_history')].role = "assistant"

ProbeActions ==
    { "auto", "sidebar_refresh", "sidebar_test_connection", "main_test_connection" }

\* the step changes the tools cache
CacheChanged ==
    cached_tools' # cached_tools \/ cached_tools_time' # cached_tools_time

\* C24: api_connected is false until a probe has run and from then on what the
\* most recent probe returned; a step that makes no probe leaves it as it is,
\* be it the return of a query, failed in transport or not, a cache refresh or
\* a clear; and every probe is asked for by the check on first load or by one
\* of Test Connection and Refresh Connection.
C24_ConnectedIsLastProbe ==
    /\ [](/\ ~api_checking => ~api_connected
          /\ probed # <<>> => api_connected = probed[Len(probed)].ret
          /\ \A i \in 1 .. Len(probed) : probed[i].by \in ProbeActions)
    /\ [][ /\ IF probed' # <<>>
              THEN api_connected' = probed'[Len(probed')].ret
              ELSE api_connected' = api_connected
           /\ QueryReturned
                => /\ probed' = <<>>
                   /\ api_connected' = api_connected
           /\ (CacheChanged /\ lastAction' \notin ProbeActions)
                => (api_checking => api_connected' = api_connected)
           /\ (lastAction' = "clear_chat" /\ pc' = "run" /\ pc = "idle")
                => api_connected' = api_connected ]_vars

\* a dispatch of a connected session has just ended in a transport failure and
\* the session is still marked connected
C24_Witness ==
    /\ api_connected
    /\ result # None
    /\ TransportFailure(result.out)
    /\ lastAction \in {"chat_form", "quick_help"}
    /\ probed = <<>>
    /\ chat_history # <<>>
    /\ chat_history[Len(chat_history)].role = "assistant"

\* the buttons that ask for a liveness probe
ProbeButtons == ProbeActions \ {"auto"}

\* the probes the step makes that no button asked for
AutoProbed == SelectSeq(probed', LAMBDA p : p.by = "auto")

\* C25: the automatic probe runs once in a session, in the first execution
\* after initialization, which sets api_checking for good; every later probe
\* is the one probe of an execution serving Test Connection or Refresh
\* Connection, whatever the first probe returned and however a dispatch ends.
C25_AutoProbeOnce ==
    /\ [](/\ ~api_checking
                => /\ pc = "run"
                   /\ lastAction = "none"
                   /\ probed = <<>>
                   /\ ~api_connected
                   /\ chat_history = <<>>
          /\ pc # "run" => api_checking)
    /\ [][ /\ api_checking => api_checking'
           /\ (~api_checking /\ pc' # pc)
                => /\ api_checking'
                   /\ Len(probed') = 1
                   /\ probed'[1].by = "auto"
           /\ (api_checking /\ probed' # probed)
                => /\ AutoProbed = <<>>
                   /\ \/ probed' = <<>>
                      \/ /\ Len(probed') = 1
                         /\ probed'[1].by = lastAction'
                         /\ lastAction' \in ProbeButtons
                         /\ pc = "idle"
           /\ (api_checking /\ RunStep) => probed' = <<>>
           /\ (api_checking /\ QueryReturned) => probed' = <<>> ]_vars

\* a dispatch of a connected session ended in a transport failure more than
\* 60 seconds into the session, and no probe was made for it
C25_Witness ==
    /\ api_checking
    /\ api_connected
    /\ probed = <<>>
    /\ result # None
    /\ TransportFailure(result.out)
    /\ now > cache_duration
    /\ served.probes = 0
    /\ served.queries = 1

====
